---- MODULE Spec2Model ----
(***************************************************************************)
(* The build and packaging pipeline of the cars command-line client        *)
(* (src/src/index.ts): the manifest store (loadCARSConfigInfo and its       *)
(* legacy-field migration), target resolution (pickCARSConfig), the build  *)
(* steps of buildArtifact, staging and archive packaging.                  *)
(*                                                                         *)
(* Strings that the code inspects character by character (identifiers and  *)
(* target names, read by parseInt) are sequences of one-character strings; *)
(* paths are sequences of path components.                                 *)
(***************************************************************************)
EXTENDS Integers, Sequences, FiniteSets, TLC

VARIABLES
    file,          \* deployment-info.json on disk: NoFile or a manifest
    fs,            \* the other paths that exist under the project root
    scripts,       \* the scripts declared in backend/package.json
    staging,       \* the cars_tmp_build_<t> directories on disk (their <t>)
    artifacts,     \* the cars_artifact_<t>.tgz files on disk: <t> -> entries
    clock,         \* Date.now()
    cmds,          \* commands run so far
    cmd,           \* the command running or last run: "none", "build", "ls"
    pc,            \* its position
    nameOrIndex,   \* the [nameOrIndex] argument; <<>> when not given
    info,          \* carsConfigInfo, the manifest in memory
    activeConfig,  \* the target pickCARSConfig returned
    running,       \* the subprocesses alive
    log,           \* the subprocesses of this command, in launch order
    failure,       \* why the command exited non-zero, "none" otherwise
    tmpDir,        \* <t> of this run's staging directory, -1 before mkdir
    staged,        \* the entries copied into tmpDir
    artifactName,  \* <t> of this run's artifact name, -1 before it is made
    artifacts0,    \* the artifact files on disk when the command started
    loadHist,      \* what the latest loadCARSConfigInfo read and wrote
    sent,          \* the requests sent, in order, by this command or, in a
                   \* menu, by the selection under way
    op,            \* the operation under way: the subcommand, or the
                   \* selection made in a menu; "none" in a menu
    options,       \* the flags given on the command line
    artifactPath,  \* what findLatestArtifact returned; <<>> before
    engineConfig,  \* engineConfig of editAdvancedEngineConfig
    answers        \* the answers given to the confirmations of the operation

vars == <<file, fs, scripts, staging, artifacts, clock, cmds, cmd, pc,
          nameOrIndex, info, activeConfig, running, log, failure, tmpDir,
          staged, artifactName, artifacts0, loadHist, sent, op, options,
          artifactPath, engineConfig, answers>>

\* What only the operations on a project read and write
session == <<op, options, artifactPath, engineConfig, answers>>

(***************************************************************************)
(* Bounds                                                                  *)
(***************************************************************************)
MaxCommands == 2

\* The requests after which the engine settings editor is left
MaxRequests == 3

(***************************************************************************)
(* JSON values                                                             *)
(***************************************************************************)
Absent == "<absent>"

\* A field that holds a target list in the manifest: not there, null, or an
\* array. Only an array is truthy.
NoField == [kind |-> "absent", items |-> <<>>]
NullField == [kind |-> "null", items |-> <<>>]
List(ts) == [kind |-> "list", items |-> ts]
Truthy(v) == v.kind = "list"
Present(v) == v.kind # "absent"

NoFile == [exists |-> FALSE]

Manifest(sch, con, fe, dep, cfg, fmt) ==
    [exists |-> TRUE, schema |-> sch, contracts |-> con, frontend |-> fe,
     deployments |-> dep, configs |-> cfg, fmt |-> fmt]

\* deploy of a target that has no deploy field
NoDeploy == {"<undefined>"}

\* The CARS Cloud of the targets of a manifest, and the project they name
CloudURL == "https://cars.babbage.systems"
ProjectID == "p1"

Target(n, p, d) ==
    [name |-> n, provider |-> p, deploy |-> d, CARSCloudURL |-> CloudURL,
     projectID |-> ProjectID]
NoConfig ==
    [name |-> <<>>, provider |-> Absent, deploy |-> NoDeploy,
     CARSCloudURL |-> Absent, projectID |-> Absent]

(***************************************************************************)
(* Manifest store                                                          *)
(***************************************************************************)
\* saveCARSConfigInfo: JSON.stringify(info, null, 2) written over the file
saveCARSConfigInfo(i) == [i EXCEPT !.fmt = "stringify"]

\* The migration guard of loadCARSConfigInfo
NeedsMigration(f) == Truthy(f.deployments) /\ ~Truthy(f.configs)

\* Migrated, had the legacy field been left in the object
Migrated_KeepLegacy(f) == [f EXCEPT !.configs = f.deployments]

\* The migrated object: configs takes the legacy list, the legacy field is
\* deleted
Migrated(f) == [f EXCEPT !.configs = f.deployments, !.deployments = NoField]

\* info.configs = info.configs || []
DefaultConfigs(i) ==
    IF Truthy(i.configs) THEN i ELSE [i EXCEPT !.configs = List(<<>>)]

\* loadCARSConfigInfo, had it saved what it read on every load
loadCARSConfigInfo_AlwaysSave(f) ==
    LET m == IF NeedsMigration(f) THEN Migrated(f) ELSE f
    IN  [file |-> saveCARSConfigInfo(m), info |-> DefaultConfigs(m),
         writes |-> 1]

\* loadCARSConfigInfo on an existing file f: the file it leaves, the object
\* it returns and the number of writes it made
loadCARSConfigInfo(f) ==
    IF NeedsMigration(f)
    THEN [file |-> saveCARSConfigInfo(Migrated(f)),
          info |-> DefaultConfigs(Migrated(f)),
          writes |-> 1]
    ELSE [file |-> f, info |-> DefaultConfigs(f), writes |-> 0]

\* isCARSConfig, had every provider been eligible
isCARSConfig_Any(c) == TRUE

isCARSConfig(c) == c.provider = "CARS"

listAllConfigs(i) == IF Truthy(i.configs) THEN i.configs.items ELSE <<>>

(***************************************************************************)
(* Target registry                                                         *)
(***************************************************************************)
Digits == <<"0", "1", "2", "3", "4", "5", "6", "7", "8", "9">>
IsDigit(c) == \E d \in 1..Len(Digits) : Digits[d] = c
DigitValue(c) == (CHOOSE d \in 1..Len(Digits) : Digits[d] = c) - 1

\* The number of leading characters of s that are digits
RECURSIVE DigitPrefixLen(_)
DigitPrefixLen(s) ==
    IF s = <<>> \/ ~IsDigit(Head(s)) THEN 0 ELSE 1 + DigitPrefixLen(Tail(s))

\* The value of a sequence of digits, base 10
RECURSIVE DigitsValue(_)
DigitsValue(s) ==
    IF s = <<>> THEN 0
    ELSE 10 * DigitsValue(SubSeq(s, 1, Len(s) - 1)) + DigitValue(s[Len(s)])

\* parseInt(s, 10): an optional sign, then the longest prefix of digits;
\* NaN when there is no digit there
parseInt(s) ==
    LET neg == s # <<>> /\ Head(s) = "-"
        body == IF s # <<>> /\ Head(s) \in {"-", "+"} THEN Tail(s) ELSE s
        n == DigitPrefixLen(body)
        v == DigitsValue(SubSeq(body, 1, n))
    IN  IF n = 0 THEN [nan |-> TRUE, val |-> 0]
        ELSE [nan |-> FALSE, val |-> IF neg THEN 0 - v ELSE v]

\* The position of the target findConfigByNameOrIndex returns, 0 for undefined
findConfigByNameOrIndex(i, id) ==
    LET all == listAllConfigs(i)
        index == parseInt(id)
        named == {k \in 1..Len(all) : all[k].name = id}
    IN  IF ~index.nan /\ index.val >= 0 /\ index.val < Len(all)
        THEN index.val + 1
        ELSE IF named = {} THEN 0
        ELSE CHOOSE k \in named : \A j \in named : k <= j

\* The positions pickCARSConfig offers in its prompt
carsConfigs(i) ==
    {k \in 1..Len(listAllConfigs(i)) : isCARSConfig(listAllConfigs(i)[k])}

\* activeConfig.deploy || []
DeployOf(c) == IF c.deploy = NoDeploy THEN {} ELSE c.deploy

(***************************************************************************)
(* Filesystem                                                              *)
(***************************************************************************)
IsPrefix(p, q) == Len(p) <= Len(q) /\ SubSeq(q, 1, Len(p)) = p

existsSync(p) == p \in fs

\* copyIfExists(src, tmpDir): the entry it adds to the staging directory
copyIfExists(p) == IF existsSync(p) THEN {p} ELSE {}

\* copyDirectory(src, tmpDir/dest): dest and, under it, everything under src
copyDirectory(src, dest) ==
    {dest} \cup {dest \o SubSeq(q, Len(src) + 1, Len(q)) :
                    q \in {r \in fs : IsPrefix(src, r) /\ r # src}}

ManifestEntry == <<"deployment-info.json">>

\* frontend.language.toLowerCase()
toLowerCase(l) ==
    CASE l = "HTML" -> "html"
      [] l = "React" -> "react"
      [] OTHER -> l

(***************************************************************************)
(* Artifact files                                                          *)
(***************************************************************************)
ARTIFACT_PREFIX ==
    <<"c", "a", "r", "s", "_", "a", "r", "t", "i", "f", "a", "c", "t", "_">>
ARTIFACT_EXTENSION == <<".", "t", "g", "z">>

\* `${n}` of a non-negative integer: its decimal digits, no padding
RECURSIVE toString(_)
toString(n) ==
    IF n < 10 THEN <<Digits[n + 1]>>
    ELSE Append(toString(n \div 10), Digits[(n % 10) + 1])

\* `${ARTIFACT_PREFIX}${Date.now()}${ARTIFACT_EXTENSION}` at time t
ArtifactFile(t) == ARTIFACT_PREFIX \o toString(t) \o ARTIFACT_EXTENSION

\* The characters of artifact names, in the order of their UTF-16 code units
Alphabet ==
    <<".", "0", "1", "2", "3", "4", "5", "6", "7", "8", "9", "_", "a", "c",
      "f", "g", "i", "r", "s", "t", "z">>
CodeUnit(c) == CHOOSE k \in 1..Len(Alphabet) : Alphabet[k] = c

\* a < b as Array.prototype.sort() compares strings: by code unit, a proper
\* prefix first
RECURSIVE Before(_, _)
Before(a, b) ==
    IF b = <<>> THEN FALSE
    ELSE IF a = <<>> THEN TRUE
    ELSE IF Head(a) = Head(b) THEN Before(Tail(a), Tail(b))
    ELSE CodeUnit(Head(a)) < CodeUnit(Head(b))

\* findArtifacts: the names in the project root with the artifact prefix and
\* extension
findArtifacts == {ArtifactFile(t) : t \in DOMAIN artifacts}

\* findLatestArtifact: artifacts.sort().pop(); <<>> when there is none
findLatestArtifact ==
    IF findArtifacts = {} THEN <<>>
    ELSE CHOOSE n \in findArtifacts :
            \A m \in findArtifacts : m = n \/ Before(m, n)

(***************************************************************************)
(* Commands                                                                *)
(***************************************************************************)
Parts == {"backend", "frontend"}

Ended == {"idle", "done", "failed"}

NoLoad == [valid |-> FALSE, pre |-> NoFile, writes |-> 0, again |-> FALSE]

\* What a load of the file f records: what it read, the writes it made, and
\* whether it read what a load of a manifest with a legacy list left (no
\* other write in between)
Loaded(f, w) ==
    [valid |-> TRUE, pre |-> f, writes |-> w,
     again |-> loadHist.valid /\ Truthy(loadHist.pre.deployments)]

\* process.exit(1)
Exit1(reason) == pc' = "failed" /\ failure' = reason

\* A request to a CARS Cloud (or to the upload URL it gave), with the
\* settings or the file it carries and its result: "undefined" when it
\* failed, "ok" for a response that has the fields its caller goes on with,
\* "other" for a response that has not
Req(url, ep, b, result) ==
    [to |-> url, endpoint |-> ep, body |-> b, result |-> result]

\* The result of a request that has no outcome but done or failed
Outcome(ok) == IF ok THEN "ok" ELSE "undefined"

\* A command starts: nothing of the previous one is left in memory
Started(c, o, id, flags) ==
    /\ pc \in Ended
    /\ cmds < MaxCommands
    /\ cmds' = cmds + 1
    /\ cmd' = c
    /\ op' = o
    /\ options' = flags
    /\ sent' = <<>>
    /\ artifactPath' = <<>>
    /\ engineConfig' = {}
    /\ answers' = <<>>
    /\ nameOrIndex' = id
    /\ activeConfig' = NoConfig
    /\ running' = {}
    /\ log' = <<>>
    /\ tmpDir' = -1
    /\ staged' = {}
    /\ artifactName' = -1
    /\ artifacts0' = artifacts

\* A subcommand that takes no flag
Fresh(c, id) == Started(c, c, id, {})

\* Where a command goes on once its target is resolved
Picked ==
    CASE op = "build" -> "install"
      [] op = "main" -> "mainMenu"
      [] OTHER -> "project"

\* The manifest that cars, given no argument, writes where there is none
BasicManifest == Manifest("bsv-app", Absent, Absent, NoField, NoField, "stringify")

\* LoadStep, had a missing manifest been made up before the exit
LoadStep_Creating ==
    IF ~file.exists
    THEN /\ Exit1("ManifestMissing")
         /\ info' = NoFile
         /\ loadHist' = NoLoad
         /\ file' = BasicManifest
    ELSE LET r == loadCARSConfigInfo(file)
         IN  /\ file' = r.file
             /\ info' = r.info
             /\ loadHist' = Loaded(file, r.writes)

\* const carsConfigInfo = loadCARSConfigInfo() of a command
LoadStep ==
    IF ~file.exists
    THEN /\ Exit1("ManifestMissing")
         /\ info' = NoFile
         /\ loadHist' = NoLoad
         /\ file' = file
    ELSE LET r == loadCARSConfigInfo(file)
         IN  /\ file' = r.file
             /\ info' = r.info
             /\ loadHist' = Loaded(file, r.writes)

\* cars config ls
ConfigLs ==
    /\ Fresh("ls", <<>>)
    /\ LoadStep
    /\ IF file.exists THEN pc' = "done" /\ failure' = "none" ELSE TRUE
    /\ UNCHANGED <<fs, scripts, staging, artifacts, clock>>

\* ValidSchema, had the schema not been checked
ValidSchema_Any(i) == TRUE

\* The schema check of buildArtifact
ValidSchema(i) == i.schema = "bsv-app"

\* cars build [nameOrIndex]: the load and the schema check
Build(id) ==
    /\ Fresh("build", id)
    /\ LoadStep
    /\ IF ~file.exists THEN TRUE
       ELSE IF ~ValidSchema(loadCARSConfigInfo(file).info)
            THEN Exit1("InvalidSchema")
            ELSE pc' = "pick" /\ failure' = "none"
    /\ UNCHANGED <<fs, scripts, staging, artifacts, clock>>

\* pickCARSConfig with an identifier
PickByName ==
    /\ pc = "pick"
    /\ nameOrIndex # <<>>
    /\ LET k == findConfigByNameOrIndex(info, nameOrIndex)
       IN  IF k = 0
           THEN Exit1("ConfigNotFound") /\ UNCHANGED activeConfig
           ELSE IF ~isCARSConfig(listAllConfigs(info)[k])
           THEN Exit1("NotCARSConfig") /\ UNCHANGED activeConfig
           ELSE /\ activeConfig' = listAllConfigs(info)[k]
                /\ pc' = Picked
                /\ UNCHANGED failure
    /\ nameOrIndex' = <<>>
    /\ UNCHANGED <<file, fs, scripts, staging, artifacts, clock, cmds, cmd, sent, session,
                   info, running, log, tmpDir, staged, artifactName,
                   artifacts0, loadHist>>

\* pickCARSConfig without an identifier: inquirer.prompt lists the CARS
\* configurations, however many there are, and waits for the user
PickPrompt ==
    /\ pc = "pick"
    /\ nameOrIndex = <<>>
    /\ carsConfigs(info) # {}
    /\ pc' = "prompt"
    /\ UNCHANGED <<file, fs, scripts, staging, artifacts, clock, cmds, cmd, sent, session,
                   nameOrIndex, info, activeConfig, running, log, failure,
                   tmpDir, staged, artifactName, artifacts0, loadHist>>

\* The user chooses one of the choices of the prompt
PromptAnswer(chosenIndex) ==
    /\ pc = "prompt"
    /\ chosenIndex \in carsConfigs(info)
    /\ activeConfig' = listAllConfigs(info)[chosenIndex]
    /\ pc' = Picked
    /\ UNCHANGED <<file, fs, scripts, staging, artifacts, clock, cmds, cmd, sent, session,
                   nameOrIndex, info, running, log, failure, tmpDir, staged,
                   artifactName, artifacts0, loadHist>>

\* pickCARSConfig without an identifier and without a CARS configuration
PickCreate ==
    /\ pc = "pick"
    /\ nameOrIndex = <<>>
    /\ carsConfigs(info) = {}
    /\ pc' = "add"
    /\ UNCHANGED <<file, fs, scripts, staging, artifacts, clock, cmds, cmd, sent, session,
                   nameOrIndex, info, activeConfig, running, log, failure,
                   tmpDir, staged, artifactName, artifacts0, loadHist>>

\* The name typed in the prompt of addCARSConfigInteractive
NewName == <<"n">>

\* The CARS Cloud URL chosen in the prompt of addCARSConfigInteractive
NewURL == "https://cars.atx.systems"

\* addCARSConfigInteractive: in chooseOrCreateProjectID the registration
\* fails, or it succeeds and the project request (list or create) fails,
\* before anything is saved
AddConfigAbort(registered) ==
    /\ pc = "add"
    /\ IF registered
       THEN /\ sent' = sent \o <<Req(NewURL, "register", {}, "ok"),
                                 Req(NewURL, "project/create", {}, "undefined")>>
            /\ Exit1("ProjectRequestFailed")
       ELSE /\ sent' = Append(sent, Req(NewURL, "register", {}, "undefined"))
            /\ Exit1("RegistrationFailed")
    /\ UNCHANGED <<file, fs, scripts, staging, artifacts, clock, cmds, cmd,
                   session,
                   nameOrIndex, info, activeConfig, running, log, tmpDir,
                   staged, artifactName, artifacts0, loadHist>>

\* addCARSConfigInteractive: registered, and the project found or made on
\* the server, the new configuration is pushed and saved
AddConfigSave(deployTargets) ==
    /\ pc = "add"
    /\ LET newCfg == [Target(NewName, "CARS", deployTargets)
                         EXCEPT !.CARSCloudURL = NewURL]
           i == [info EXCEPT
                    !.configs = List(Append(listAllConfigs(info), newCfg))]
       IN  /\ info' = i
           /\ file' = saveCARSConfigInfo(i)
    /\ sent' = sent \o <<Req(NewURL, "register", {}, "ok"),
                          Req(NewURL, "project/create", {}, "ok")>>
    /\ loadHist' = NoLoad
    /\ pc' = "addRegister"
    /\ UNCHANGED <<fs, scripts, staging, artifacts, clock, cmds, cmd,
                   session,
                   nameOrIndex, activeConfig, running, log, failure, tmpDir,
                   staged, artifactName, artifacts0>>

\* addCARSConfigInteractive: ensureRegistered(newCfg), then return newCfg
AddRegister(ok) ==
    /\ pc = "addRegister"
    /\ IF ok
       THEN /\ activeConfig' = listAllConfigs(info)[Len(listAllConfigs(info))]
            /\ pc' = Picked
            /\ UNCHANGED failure
       ELSE Exit1("RegistrationFailed") /\ UNCHANGED activeConfig
    /\ sent' = Append(sent, Req(NewURL, "register", {}, Outcome(ok)))
    /\ UNCHANGED <<file, fs, scripts, staging, artifacts, clock, cmds, cmd,
                   session,
                   nameOrIndex, info, running, log, tmpDir, staged,
                   artifactName, artifacts0, loadHist>>

(***************************************************************************)
(* Subprocesses                                                            *)
(***************************************************************************)
Step(d, sc) == [dir |-> d, script |-> sc]

\* The spawnSync call of each position
SpawnAt ==
    [install |-> Step("root", "install"),
     backendInstall |-> Step("backend", "install"),
     compile |-> Step("backend", "compile"),
     backendBuild |-> Step("backend", "build"),
     frontendInstall |-> Step("frontend", "install"),
     frontendBuild |-> Step("frontend", "build")]

\* The exit statuses a step can end with: npm run <script> fails when
\* backend/package.json declares no such script
ExitStatus(st) ==
    IF st.dir = "backend" /\ st.script \in {"compile", "build"}
       /\ st.script \notin scripts
    THEN {1} ELSE {0, 1}

\* Reaped, had the child been left running (spawn instead of spawnSync)
Reaped_Not(st) == running

\* The process table once spawnSync has returned: the child has terminated
Reaped(st) == running \ {st}

\* spawnSync starts the child
Launch ==
    /\ pc \in DOMAIN SpawnAt
    /\ SpawnAt[pc] \notin running
    /\ running' = running \cup {SpawnAt[pc]}
    /\ log' = Append(log, [step |-> SpawnAt[pc], status |-> -1])
    /\ UNCHANGED <<file, fs, scripts, staging, artifacts, clock, cmds, cmd, sent, session,
                   pc, nameOrIndex, info, activeConfig, failure, tmpDir,
                   staged, artifactName, artifacts0, loadHist>>

\* spawnSync returns: the child of position at has ended with status
Returned(at, status) ==
    /\ pc = at
    /\ SpawnAt[at] \in running
    /\ status \in ExitStatus(SpawnAt[at])
    /\ running' = Reaped(SpawnAt[at])
    /\ log' = [log EXCEPT ![Len(log)].status = status]
    /\ UNCHANGED <<file, scripts, staging, artifacts, cmds, cmd, sent, session, nameOrIndex,
                   info, activeConfig, tmpDir, staged, artifactName,
                   artifacts0, loadHist>>

deploy == DeployOf(activeConfig)

LockFile == <<"package-lock.json">>

\* spawnSync('npm', ['i']) in the project root; its status is not read
ExitRootInstall(status, lock) ==
    /\ Returned("install", status)
    /\ fs' = IF lock /\ <<"package.json">> \in fs THEN fs \cup {LockFile}
             ELSE fs
    /\ clock' = clock + 1
    /\ pc' = "backend"
    /\ UNCHANGED failure

\* The contracts language of the manifest is set
HasContracts(i) == i.contracts # Absent

\* SupportedContracts, had every contracts language been accepted
SupportedContracts_Any(i) == TRUE

SupportedContracts(i) == i.contracts = "sCrypt"

\* Backend build: the checks before the first backend subprocess
BackendCheck ==
    /\ pc = "backend"
    /\ IF "backend" \notin deploy
       THEN pc' = "frontend" /\ UNCHANGED failure
       ELSE IF ~existsSync(<<"backend", "package.json">>)
       THEN Exit1("BackendMissing")
       ELSE IF HasContracts(info) /\ ~SupportedContracts(info)
       THEN Exit1("UnsupportedContractLanguage")
       ELSE pc' = "backendInstall" /\ UNCHANGED failure
    /\ UNCHANGED <<file, fs, scripts, staging, artifacts, clock, cmds, cmd, sent, session,
                   nameOrIndex, info, activeConfig, running, log, tmpDir,
                   staged, artifactName, artifacts0, loadHist>>

\* AfterBackendInstall, had the build script been run without looking for it
AfterBackendInstall_AlwaysBuild ==
    IF HasContracts(info)
    THEN IF "compile" \in scripts THEN "compile" ELSE "failed"
    ELSE "backendBuild"

\* AfterBackendInstall, had the compile script been run without looking for it
AfterBackendInstall_NoCompileCheck ==
    IF HasContracts(info) THEN "compile"
    ELSE IF "build" \in scripts THEN "backendBuild" ELSE "frontend"

\* Where the backend goes after npm i: with contracts the compile script
\* must be declared; without, the build script runs when declared
AfterBackendInstall ==
    IF HasContracts(info)
    THEN IF "compile" \in scripts THEN "compile" ELSE "failed"
    ELSE IF "build" \in scripts THEN "backendBuild" ELSE "frontend"

\* spawnSync('npm', ['i'], { cwd: 'backend' }); its status is not read
ExitBackendInstall(status) ==
    /\ Returned("backendInstall", status)
    /\ pc' = AfterBackendInstall
    /\ failure' = IF AfterBackendInstall = "failed" THEN "MissingCompileStep"
                  ELSE failure
    /\ UNCHANGED <<fs, clock>>

\* Checked, had the exit status been ignored
Checked_Ignored(status, next, reason) == pc' = next /\ UNCHANGED failure

\* A step whose non-zero status ends the command
Checked(status, next, reason) ==
    IF status # 0 THEN Exit1(reason) ELSE pc' = next /\ UNCHANGED failure

\* npm run compile in backend
ExitCompile(status) ==
    /\ Returned("compile", status)
    /\ Checked(status, "backendBuild", "BackendCompileFailed")
    /\ UNCHANGED <<fs, clock>>

\* npm run build in backend
ExitBackendBuild(status) ==
    /\ Returned("backendBuild", status)
    /\ Checked(status, "frontend", "BackendBuildFailed")
    /\ UNCHANGED <<fs, clock>>

(***************************************************************************)
(* Frontend build                                                          *)
(***************************************************************************)
FrontendPkg == <<"frontend", "package.json">>
IndexHtml == <<"frontend", "index.html">>
ReactOutput == <<"frontend", "build">>

\* What npm run build leaves for a react frontend: the output directory and
\* the page in it
ReactBuilt == {ReactOutput, ReactOutput \o <<"index.html">>}

frontendLang == toLowerCase(info.frontend)

\* FrontendVerdict, had the entry point of an html frontend not been looked
\* for
FrontendVerdict_HtmlUnchecked ==
    IF info.frontend = Absent THEN "FrontendLanguageUnset"
    ELSE IF frontendLang = "html" THEN "ok"
    ELSE IF ~existsSync(FrontendPkg) THEN "FrontendPackageMissing"
    ELSE IF frontendLang = "react" THEN "spawn"
    ELSE "UnsupportedFrontendLanguage"

\* FrontendVerdict, had a language that is neither react nor html needed
\* no build
FrontendVerdict_AnyLanguage ==
    IF info.frontend = Absent THEN "FrontendLanguageUnset"
    ELSE IF frontendLang = "react"
    THEN IF existsSync(FrontendPkg) THEN "spawn" ELSE "FrontendPackageMissing"
    ELSE IF frontendLang = "html" /\ ~existsSync(IndexHtml)
    THEN "HtmlEntryMissing"
    ELSE "ok"

\* Frontend build: the checks before the first frontend subprocess, and the
\* whole of the html case; "ok" when the frontend is built or needs no build
FrontendVerdict ==
    IF info.frontend = Absent THEN "FrontendLanguageUnset"
    ELSE IF ~existsSync(FrontendPkg) /\ frontendLang = "html"
            /\ ~existsSync(IndexHtml)
    THEN "HtmlEntryMissing"
    ELSE IF ~existsSync(FrontendPkg) /\ frontendLang # "html"
    THEN "FrontendPackageMissing"
    ELSE IF frontendLang = "react" THEN "spawn"
    ELSE IF frontendLang = "html"
    THEN IF ~existsSync(IndexHtml) THEN "HtmlEntryMissing" ELSE "ok"
    ELSE "UnsupportedFrontendLanguage"

FrontendCheck ==
    /\ pc = "frontend"
    /\ IF "frontend" \notin deploy \/ FrontendVerdict = "ok"
       THEN pc' = "stage" /\ UNCHANGED failure
       ELSE IF FrontendVerdict = "spawn"
       THEN pc' = "frontendInstall" /\ UNCHANGED failure
       ELSE Exit1(FrontendVerdict)
    /\ UNCHANGED <<file, fs, scripts, staging, artifacts, clock, cmds, cmd, sent, session,
                   nameOrIndex, info, activeConfig, running, log, tmpDir,
                   staged, artifactName, artifacts0, loadHist>>

\* spawnSync('npm', ['i'], { cwd: 'frontend' }); its status is not read
\* ExitFrontendInstall, had the status of npm i been read as that of the
\* build steps is
ExitFrontendInstall_Checked(status) ==
    /\ Returned("frontendInstall", status)
    /\ Checked(status, "frontendBuild", "FrontendInstallFailed")
    /\ UNCHANGED <<fs, clock>>

ExitFrontendInstall(status) ==
    /\ Returned("frontendInstall", status)
    /\ pc' = "frontendBuild"
    /\ UNCHANGED <<fs, clock, failure>>

\* npm run build in frontend, which may leave frontend/build behind
ExitFrontendBuild(status, out) ==
    /\ Returned("frontendBuild", status)
    /\ fs' = IF out THEN fs \cup ReactBuilt ELSE fs
    /\ IF status # 0 THEN Exit1("ReactBuildFailed")
       ELSE IF ReactOutput \notin fs' THEN Exit1("ReactOutputMissing")
       ELSE pc' = "stage" /\ UNCHANGED failure
    /\ UNCHANGED clock

(***************************************************************************)
(* Staging and packaging                                                   *)
(***************************************************************************)
\* deployment-info.json, package.json and package-lock.json, when they exist
StagedRoot ==
    (IF file.exists THEN {ManifestEntry} ELSE {})
        \cup copyIfExists(<<"package.json">>) \cup copyIfExists(LockFile)

\* StagedBackend, had the backend been copied whatever the deploy set
StagedBackend_Always == copyDirectory(<<"backend">>, <<"backend">>)

StagedBackend ==
    IF "backend" \in deploy
    THEN copyDirectory(<<"backend">>, <<"backend">>) ELSE {}

\* StagedFrontend, had the frontend sources been copied for react too
StagedFrontend_Sources ==
    IF "frontend" \in deploy /\ frontendLang \in {"react", "html"}
    THEN copyDirectory(<<"frontend">>, <<"frontend">>)
    ELSE {}

StagedFrontend ==
    IF "frontend" \in deploy /\ frontendLang = "react"
    THEN copyDirectory(ReactOutput, <<"frontend">>)
    ELSE IF "frontend" \in deploy /\ frontendLang = "html"
    THEN copyDirectory(<<"frontend">>, <<"frontend">>)
    ELSE {}

\* StageVerdict, had the stager relied on the checks of the build steps
StageVerdict_Trusting == "ok"

\* The stager's own checks of the sources it copies; "ok" when all are there
StageVerdict ==
    IF "backend" \in deploy /\ ~existsSync(<<"backend">>)
    THEN "StageBackendMissing"
    ELSE IF "frontend" \in deploy /\ frontendLang = "react"
            /\ ~existsSync(ReactOutput)
    THEN "StageReactOutputMissing"
    ELSE IF "frontend" \in deploy /\ frontendLang = "html"
            /\ ~existsSync(IndexHtml)
    THEN "StageHtmlEntryMissing"
    ELSE "ok"

\* What is in the staging directory when the stager stops
StagedUpTo(verdict) ==
    CASE verdict = "StageBackendMissing" -> StagedRoot
      [] verdict \in {"StageReactOutputMissing", "StageHtmlEntryMissing"} ->
            StagedRoot \cup StagedBackend
      [] OTHER -> StagedRoot \cup StagedBackend \cup StagedFrontend

\* The artifact name, mkdirSync(tmpDir) and the copies into it
Stage ==
    /\ pc = "stage"
    /\ artifactName' = clock
    /\ IF clock \in staging
       THEN Exit1("StagingExists") /\ UNCHANGED <<tmpDir, staged, staging>>
       ELSE /\ tmpDir' = clock
            /\ staging' = staging \cup {clock}
            /\ staged' = StagedUpTo(StageVerdict)
            /\ IF StageVerdict = "ok" THEN pc' = "package" /\ UNCHANGED failure
               ELSE Exit1(StageVerdict)
    /\ UNCHANGED <<file, fs, scripts, artifacts, clock, cmds, cmd, sent, session,
                   nameOrIndex, info, activeConfig, running, log, artifacts0,
                   loadHist>>

\* The staging directories on disk after fs.rmSync(tmpDir)
Removed(t) == staging \ {t}

\* Written, had the artifact name carried no timestamp
Written_OneName(t, entries) == (0 :> entries) @@ artifacts

\* The artifact files once tar.create has written the file named after t:
\* the file is created, or written over when it exists
Written(t, entries) == (t :> entries) @@ artifacts

\* tar.create writes the artifact, then the staging directory is removed
Package ==
    /\ pc = "package"
    /\ artifacts' = Written(artifactName, staged)
    /\ staging' = Removed(tmpDir)
    /\ pc' = "done"
    /\ UNCHANGED <<file, fs, scripts, clock, cmds, cmd, sent, session, nameOrIndex, info,
                   activeConfig, running, log, failure, tmpDir, staged,
                   artifactName, artifacts0, loadHist>>

\* tar.create rejects (the archive cannot be written): buildArtifact throws
PackageFail ==
    /\ pc = "package"
    /\ Exit1("PackagingFailed")
    /\ UNCHANGED <<file, fs, scripts, staging, artifacts, clock, cmds, cmd, sent, session,
                   nameOrIndex, info, activeConfig, running, log, tmpDir,
                   staged, artifactName, artifacts0, loadHist>>

\* Another process removes a source between the build checks and staging
EnvRemove(p) ==
    /\ pc = "stage"
    /\ p \in fs
    /\ fs' = {q \in fs : ~IsPrefix(p, q)}
    /\ UNCHANGED <<file, scripts, staging, artifacts, clock, cmds, cmd, sent, session, pc,
                   nameOrIndex, info, activeConfig, running, log, failure,
                   tmpDir, staged, artifactName, artifacts0, loadHist>>

(***************************************************************************)
(* The manifest commands, the operations on a project and the menus        *)
(***************************************************************************)
disk == <<fs, scripts, staging, artifacts, clock>>
pipeline == <<running, log, tmpDir, staged, artifactName, artifacts0>>

\* all without its element at position k
Without(all, k) == SubSeq(all, 1, k - 1) \o SubSeq(all, k + 1, Len(all))

\* deleteCARSConfig, the configuration being the one at position k
deleteCARSConfig(i, k) ==
    [i EXCEPT !.configs = List(Without(listAllConfigs(i), k))]

\* cars config delete <nameOrIndex>: the load
ConfigDelete(id) ==
    /\ Fresh("config-delete", id)
    /\ LoadStep
    /\ IF file.exists THEN pc' = "delete" /\ failure' = "none" ELSE TRUE
    /\ UNCHANGED disk

\* cars config delete <nameOrIndex>: the lookup, the checks and the removal
DeleteStep ==
    /\ pc = "delete"
    /\ LET k == findConfigByNameOrIndex(info, nameOrIndex)
       IN  IF k = 0
           THEN Exit1("ConfigNotFound") /\ UNCHANGED <<file, info>>
           ELSE IF ~isCARSConfig(listAllConfigs(info)[k])
           THEN Exit1("NotCARSConfig") /\ UNCHANGED <<file, info>>
           ELSE /\ info' = deleteCARSConfig(info, k)
                /\ file' = saveCARSConfigInfo(deleteCARSConfig(info, k))
                /\ pc' = "done"
                /\ UNCHANGED failure
    /\ UNCHANGED <<disk, pipeline, cmds, cmd, sent, session, nameOrIndex,
                   activeConfig, loadHist>>

\* A subcommand on the project of a target: the load, before pickCARSConfig
Remote(c, id, flags) ==
    /\ Started(c, c, id, flags)
    /\ LoadStep
    /\ IF file.exists THEN pc' = "pick" /\ failure' = "none" ELSE TRUE
    /\ UNCHANGED disk

\* cars release now [nameOrIndex]
ReleaseNow(id) == Remote("release", id, {})

\* cars project delete [nameOrIndex] [--force]
ProjectDelete(id, force) ==
    Remote("project-delete", id, IF force THEN {"force"} ELSE {})

\* cars project add-admin <identityKeyOrEmail> [nameOrIndex]
AddAdmin(id) == Remote("add-admin", id, {})

\* cars project remove-admin <identityKeyOrEmail> [nameOrIndex]
RemoveAdmin(id) == Remote("remove-admin", id, {})

\* Main, had the menu been entered without asking for a first configuration
Main_StraightToMenu ==
    /\ Started("main", "main", <<>>, {})
    /\ LET f == IF file.exists THEN file
                ELSE saveCARSConfigInfo(BasicManifest)
           r == loadCARSConfigInfo(f)
       IN  /\ file' = r.file
           /\ info' = r.info
           /\ loadHist' = Loaded(f, r.writes)
           /\ pc' = "mainMenu"
    /\ failure' = "none"
    /\ UNCHANGED disk

\* cars, given no argument: a basic manifest is written where there is
\* none, the manifest is loaded, and a first CARS configuration is asked for
\* when it has none
Main ==
    /\ Started("main", "main", <<>>, {})
    /\ LET f == IF file.exists THEN file
                ELSE saveCARSConfigInfo(BasicManifest)
           r == loadCARSConfigInfo(f)
       IN  /\ file' = r.file
           /\ info' = r.info
           /\ loadHist' = Loaded(f, r.writes)
           /\ pc' = IF carsConfigs(r.info) = {} THEN "add" ELSE "mainMenu"
    /\ failure' = "none"
    /\ UNCHANGED disk

\* The selection is made in a menu of cars, not given on the command line
InMenu == cmd = "main"

\* mainMenu: Manage Projects; projectMenu loads the manifest
MenuProject ==
    /\ pc = "mainMenu"
    /\ pc' = "projectMenu"
    /\ op' = "none"
    /\ file' = loadCARSConfigInfo(file).file
    /\ info' = loadCARSConfigInfo(file).info
    /\ loadHist' = Loaded(file, loadCARSConfigInfo(file).writes)
    /\ UNCHANGED <<disk, pipeline, cmds, cmd, sent, options, artifactPath,
                   engineConfig, answers, nameOrIndex, activeConfig,
                   failure>>

\* projectMenu: Back to main menu
MenuBack ==
    /\ pc = "projectMenu"
    /\ pc' = "mainMenu"
    /\ UNCHANGED <<file, disk, pipeline, cmds, cmd, sent, session,
                   nameOrIndex, info, activeConfig, failure, loadHist>>

\* mainMenu: Exit
MenuExit ==
    /\ pc = "mainMenu"
    /\ pc' = "done"
    /\ UNCHANGED <<file, disk, pipeline, cmds, cmd, sent, session,
                   nameOrIndex, info, activeConfig, failure, loadHist>>

\* The selections of projectMenu that act on the project of a target
MenuOps == {"add-admin", "remove-admin", "project-delete",
            "edit-engine-config"}

\* projectMenu: one of these is selected; each starts with pickCARSConfig(info)
MenuSelect(o) ==
    /\ pc = "projectMenu"
    /\ o \in MenuOps
    /\ op' = o
    /\ sent' = <<>>
    /\ answers' = <<>>
    /\ engineConfig' = {}
    /\ pc' = "pick"
    /\ UNCHANGED <<file, disk, pipeline, cmds, cmd, options, artifactPath,
                   nameOrIndex, info, activeConfig, failure, loadHist>>

\* The operation returns: the command ends, or the menu is shown again
Return ==
    IF InMenu THEN pc' = "projectMenu" /\ op' = "none"
    ELSE pc' = "done" /\ op' = op

\* The checks between pickCARSConfig and buildAuthFetch: the project ID of
\* the target and, for a release, the artifact to upload
ProjectCheck ==
    /\ pc = "project"
    /\ IF activeConfig.projectID = Absent
       THEN /\ IF InMenu THEN Return /\ UNCHANGED failure
               ELSE Exit1("NoProjectID") /\ op' = op
            /\ UNCHANGED artifactPath
       ELSE IF op = "release"
       THEN /\ artifactPath' = findLatestArtifact
            /\ IF findLatestArtifact = <<>> THEN Exit1("NoArtifact")
               ELSE pc' = "register" /\ UNCHANGED failure
            /\ op' = op
       ELSE /\ pc' = IF op = "project-delete" /\ "force" \notin options
                     THEN "confirm" ELSE "register"
            /\ UNCHANGED <<op, artifactPath, failure>>
    /\ UNCHANGED <<file, disk, pipeline, cmds, cmd, sent, options,
                   engineConfig, answers, nameOrIndex, info, activeConfig,
                   loadHist>>

\* The first confirmation of a project deletion
Confirm(yes) ==
    /\ pc = "confirm"
    /\ answers' = Append(answers, yes)
    /\ IF yes THEN pc' = "confirmAgain" /\ op' = op ELSE Return
    /\ UNCHANGED <<file, disk, pipeline, cmds, cmd, sent, options,
                   artifactPath, engineConfig, nameOrIndex, info,
                   activeConfig, failure, loadHist>>

\* ConfirmAgain, had the deletion gone on whatever the answer
ConfirmAgain_Unread(yes) ==
    /\ pc = "confirmAgain"
    /\ answers' = Append(answers, yes)
    /\ pc' = "register"
    /\ op' = op
    /\ UNCHANGED <<file, disk, pipeline, cmds, cmd, sent, options,
                   artifactPath, engineConfig, nameOrIndex, info,
                   activeConfig, failure, loadHist>>

\* The second confirmation of a project deletion
ConfirmAgain(yes) ==
    /\ pc = "confirmAgain"
    /\ answers' = Append(answers, yes)
    /\ IF yes THEN pc' = "register" /\ op' = op ELSE Return
    /\ UNCHANGED <<file, disk, pipeline, cmds, cmd, sent, options,
                   artifactPath, engineConfig, nameOrIndex, info,
                   activeConfig, failure, loadHist>>

\* Register, had the client been built without ensureRegistered
Register_Skipped(ok) ==
    /\ pc = "register"
    /\ IF activeConfig.CARSCloudURL = Absent
       THEN Exit1("NoCloudURL")
       ELSE pc' = "request" /\ UNCHANGED failure
    /\ UNCHANGED <<file, disk, pipeline, cmds, cmd, sent, session,
                   nameOrIndex, info, activeConfig, loadHist>>

\* buildAuthFetch: the target must name a CARS Cloud, and ensureRegistered
\* exits when its request fails
Register(ok) ==
    /\ pc = "register"
    /\ IF activeConfig.CARSCloudURL = Absent
       THEN Exit1("NoCloudURL") /\ UNCHANGED sent
       ELSE /\ sent' = Append(sent, Req(activeConfig.CARSCloudURL,
                                        "register", {}, Outcome(ok)))
            /\ IF ok THEN pc' = "request" /\ UNCHANGED failure
               ELSE Exit1("RegistrationFailed")
    /\ UNCHANGED <<file, disk, pipeline, cmds, cmd, session, nameOrIndex,
                   info, activeConfig, loadHist>>

\* What safeRequest returns: undefined when the request failed, otherwise
\* the body of the response, which has the fields the caller goes on with
\* or has not (an error body, an empty list of admins, a project that has
\* no engine_config)
Results == {"undefined", "ok", "other"}

\* The endpoint of the project that the operation requests first
Endpoint ==
    CASE op = "release" -> "deploy"
      [] op = "project-delete" -> "delete"
      [] op = "add-admin" -> "addAdmin"
      [] op = "remove-admin" -> IF InMenu THEN "admins/list" ELSE "removeAdmin"
      [] op = "edit-engine-config" -> "info"

\* result.message is read of a result that is undefined: a TypeError that
\* nothing catches
TypeError == pc' = "failed" /\ failure' = "TypeError" /\ op' = op

\* The settings of the engine held by the server
ServerConfig == {"gaspSync"}

\* The first safeRequest of the operation and what the caller makes of its
\* result
Request(result) ==
    /\ pc = "request"
    /\ sent' = Append(sent, Req(activeConfig.CARSCloudURL, Endpoint, {},
                                result))
    /\ CASE op = "release" ->
              /\ IF result = "ok" THEN pc' = "upload" /\ op' = op ELSE Return
              /\ UNCHANGED <<failure, engineConfig>>
         [] op = "project-delete" ->
              Return /\ UNCHANGED <<failure, engineConfig>>
         [] op = "add-admin" \/ (op = "remove-admin" /\ ~InMenu) ->
              /\ IF result = "undefined" THEN TypeError
                 ELSE Return /\ UNCHANGED failure
              /\ UNCHANGED engineConfig
         [] op = "remove-admin" /\ InMenu ->
              /\ IF result = "ok" THEN pc' = "chosen" /\ op' = op ELSE Return
              /\ UNCHANGED <<failure, engineConfig>>
         [] op = "edit-engine-config" ->
              /\ IF result = "undefined"
                 THEN Return /\ UNCHANGED engineConfig
                 ELSE /\ pc' = "editor"
                      /\ op' = op
                      /\ engineConfig' = IF result = "ok" THEN ServerConfig
                                         ELSE {}
              /\ UNCHANGED failure
    /\ UNCHANGED <<file, disk, pipeline, cmds, cmd, options, artifactPath,
                   answers, nameOrIndex, info, activeConfig, loadHist>>

\* projectMenu, remove-admin: an admin is chosen from the list and removed
RemoveChosen(result) ==
    /\ pc = "chosen"
    /\ sent' = Append(sent, Req(activeConfig.CARSCloudURL, "removeAdmin", {},
                                result))
    /\ IF result = "undefined" THEN TypeError ELSE Return /\ UNCHANGED failure
    /\ UNCHANGED <<file, disk, pipeline, cmds, cmd, options, artifactPath,
                   engineConfig, answers, nameOrIndex, info, activeConfig,
                   loadHist>>

\* The upload URL that the server gives for a release
UploadURL == "https://cars.babbage.systems/upload"

\* uploadArtifact: the file is posted to the URL of the release; a failure
\* is reported and the command ends
Upload(ok) ==
    /\ pc = "upload"
    /\ sent' = Append(sent, Req(UploadURL, "upload", {artifactPath},
                                Outcome(ok)))
    /\ pc' = "done"
    /\ UNCHANGED <<file, disk, pipeline, cmds, cmd, session, nameOrIndex,
                   info, activeConfig, failure, loadHist>>

\* The settings that the editor toggles
Toggles == {"requestLogging", "gaspSync"}

\* engineConfig with the setting negated
Toggled(config, setting) ==
    IF setting \in config THEN config \ {setting} ELSE config \cup {setting}

\* editAdvancedEngineConfig: one turn of the loop. A setting is toggled or
\* Done is selected, and then the settings are pushed to the server; the
\* server answers with the settings it was sent, with a body that has no
\* engineConfig, or not at all
EditorSelect(action, result) ==
    /\ pc = "editor"
    /\ action \in Toggles \cup {"done"}
    /\ action # "done" => Len(sent) < MaxRequests
    /\ LET edited == IF action = "done" THEN engineConfig
                     ELSE Toggled(engineConfig, action)
       IN  /\ sent' = Append(sent, Req(activeConfig.CARSCloudURL,
                                       "settings/update", edited, result))
           /\ engineConfig' = edited
    /\ IF action = "done" THEN Return ELSE pc' = "editor" /\ op' = op
    /\ UNCHANGED <<file, disk, pipeline, cmds, cmd, options, artifactPath,
                   answers, nameOrIndex, info, activeConfig, failure,
                   loadHist>>

(***************************************************************************)
(* The projects a command is run in                                        *)
(***************************************************************************)
Schemas == {"bsv-app", "other", Absent}
ContractLanguages == {Absent, "sCrypt", "Solidity"}
FrontendLanguages == {Absent, "react", "html", "HTML", "vue"}

\* Targets of a manifest
tAll == Target(<<"a">>, "CARS", Parts)
tBackend == Target(<<"b">>, "CARS", {"backend"})
tFrontend == Target(<<"f">>, "CARS", {"frontend"})
tEmpty == Target(<<"e">>, "CARS", {})
tBare == Target(<<"0">>, "CARS", NoDeploy)
tLars == Target(<<"l">>, "LARS", Parts)
tTwin == Target(<<"a">>, "CARS", {"backend"})

\* Manifests with one CARS target
SingleLists == {<<tAll>>, <<tBackend>>, <<tFrontend>>, <<tEmpty>>}

\* Target lists of every shape: none, one target, several, other providers,
\* a target named as an ordinal, two targets of one name
TargetLists ==
    SingleLists \cup {<<>>, <<tLars>>, <<tBare>>, <<tLars, tBackend>>,
                      <<tFrontend, tBare>>, <<tAll, tTwin>>}

\* The legacy field and the current field of a manifest whose targets are ts
FieldShapes(ts) ==
    {<<NoField, List(ts)>>, <<List(ts), NoField>>, <<List(ts), NullField>>,
     <<List(ts), List(<<tEmpty>>)>>, <<NullField, List(ts)>>,
     <<NoField, NoField>>}

RootLayouts == {{}, {<<"package.json">>}}
BackendLayouts == {{}, {<<"backend">>, <<"backend", "package.json">>}}
FrontendLayouts ==
    {{}, {<<"frontend">>, IndexHtml}, {<<"frontend">>, FrontendPkg},
     {<<"frontend">>, FrontendPkg, IndexHtml}}

Layouts ==
    {r \cup b \cup f : r \in RootLayouts, b \in BackendLayouts,
                       f \in FrontendLayouts}

\* A project with everything in place
FullLayout ==
    {<<"package.json">>, <<"backend">>, <<"backend", "package.json">>,
     <<"frontend">>, FrontendPkg, IndexHtml}

\* The identifiers given to cars build: none, ordinals, names, and a name
\* that starts with a digit
Identifiers == {<<>>, <<"0">>, <<"a">>, <<"1">>, <<"z">>, <<"1", "p">>}

\* Date.now() when the first command starts: far from a change in the number
\* of its decimal digits, or the last instants before one
StartTimes == {0, 8}

\* Projects that differ in their layout, languages and deploy set
InitPipeline ==
    /\ \E ts \in SingleLists, con \in ContractLanguages,
          fe \in FrontendLanguages :
          file = Manifest("bsv-app", con, fe, NoField, List(ts), "hand")
    /\ fs \in Layouts
    /\ scripts \in SUBSET {"compile", "build"}
    /\ <<"backend", "package.json">> \notin fs => scripts = {}

\* Projects that differ in their manifest: its schema, its legacy and
\* current target fields, how it was written, or no manifest at all
InitStore ==
    /\ \/ file = NoFile
       \/ \E sch \in Schemas, ts \in TargetLists, fmt \in {"hand", "stringify"} :
             \E sh \in FieldShapes(ts) :
                file = Manifest(sch, "sCrypt", "react", sh[1], sh[2], fmt)
    /\ fs = FullLayout
    /\ scripts = {"compile", "build"}

Init ==
    /\ InitPipeline \/ InitStore
    /\ staging = {}
    /\ artifacts = <<>>
    /\ clock \in StartTimes
    /\ cmds = 0
    /\ cmd = "none"
    /\ pc = "idle"
    /\ nameOrIndex = <<>>
    /\ info = NoFile
    /\ activeConfig = NoConfig
    /\ running = {}
    /\ log = <<>>
    /\ failure = "none"
    /\ tmpDir = -1
    /\ staged = {}
    /\ artifactName = -1
    /\ artifacts0 = <<>>
    /\ loadHist = NoLoad
    /\ sent = <<>>
    /\ op = "none"
    /\ options = {}
    /\ artifactPath = <<>>
    /\ engineConfig = {}
    /\ answers = <<>>

Next ==
    \/ ConfigLs
    \/ \E id \in Identifiers : Build(id)
    \/ PickByName
    \/ PickPrompt
    \/ pc = "prompt"
          /\ \E chosenIndex \in carsConfigs(info) : PromptAnswer(chosenIndex)
    \/ PickCreate
    \/ \E registered \in BOOLEAN : AddConfigAbort(registered)
    \/ \E d \in SUBSET Parts : AddConfigSave(d)
    \/ \E ok \in BOOLEAN : AddRegister(ok)
    \/ Launch
    \/ \E status \in {0, 1}, lock \in BOOLEAN : ExitRootInstall(status, lock)
    \/ BackendCheck
    \/ \E status \in {0, 1} : ExitBackendInstall(status)
    \/ \E status \in {0, 1} : ExitCompile(status)
    \/ \E status \in {0, 1} : ExitBackendBuild(status)
    \/ FrontendCheck
    \/ \E status \in {0, 1} : ExitFrontendInstall(status)
    \/ \E status \in {0, 1}, out \in BOOLEAN : ExitFrontendBuild(status, out)
    \/ Stage
    \/ Package

Spec == Init /\ [][Next]_vars

\* The same commands on a filesystem that can fail them: the archive may
\* not be writable, and other processes may remove what was built
Faults ==
    \/ PackageFail
    \/ \E p \in {<<"backend">>, ReactOutput, IndexHtml} : EnvRemove(p)

SpecFault == Init /\ [][Next \/ Faults]_vars

\* One project, and the manifests, targets and artifacts that the manifest
\* commands, the operations on a project and the menus tell apart
tNoProject == [tBackend EXCEPT !.projectID = Absent]
tNoCloud == [tFrontend EXCEPT !.CARSCloudURL = Absent]
tElsewhere == [tTwin EXCEPT !.CARSCloudURL = NewURL]

CliLists ==
    {<<>>, <<tAll>>, <<tLars, tBackend>>, <<tAll, tElsewhere>>,
     <<tNoProject, tNoCloud>>}

\* No artifact, one, or two whose timestamps differ in their number of digits
ArtifactsBefore ==
    {<<>>, (9 :> {ManifestEntry}),
     (9 :> {ManifestEntry}) @@ (10 :> {ManifestEntry})}

InitCli ==
    /\ \/ file = NoFile
       \/ \E ts \in CliLists :
             \/ file = Manifest("bsv-app", "sCrypt", "react", NoField,
                                List(ts), "stringify")
             \/ file = Manifest("bsv-app", "sCrypt", "react", List(ts),
                                NoField, "hand")
    /\ fs = FullLayout
    /\ scripts = {"compile", "build"}
    /\ staging = {}
    /\ artifacts \in ArtifactsBefore
    /\ clock = 10
    /\ cmds = 0
    /\ cmd = "none"
    /\ pc = "idle"
    /\ nameOrIndex = <<>>
    /\ info = NoFile
    /\ activeConfig = NoConfig
    /\ running = {}
    /\ log = <<>>
    /\ failure = "none"
    /\ tmpDir = -1
    /\ staged = {}
    /\ artifactName = -1
    /\ artifacts0 = artifacts
    /\ loadHist = NoLoad
    /\ sent = <<>>
    /\ op = "none"
    /\ options = {}
    /\ artifactPath = <<>>
    /\ engineConfig = {}
    /\ answers = <<>>

NextCli ==
    \/ Next
    \/ \E id \in Identifiers : ConfigDelete(id)
    \/ DeleteStep
    \/ \E id \in Identifiers : ReleaseNow(id)
    \/ \E id \in Identifiers, force \in BOOLEAN : ProjectDelete(id, force)
    \/ \E id \in Identifiers : AddAdmin(id)
    \/ \E id \in Identifiers : RemoveAdmin(id)
    \/ Main
    \/ MenuProject
    \/ MenuBack
    \/ MenuExit
    \/ \E o \in MenuOps : MenuSelect(o)
    \/ ProjectCheck
    \/ \E yes \in BOOLEAN : Confirm(yes)
    \/ \E yes \in BOOLEAN : ConfirmAgain(yes)
    \/ \E ok \in BOOLEAN : Register(ok)
    \/ \E result \in Results : Request(result)
    \/ \E result \in Results : RemoveChosen(result)
    \/ \E ok \in BOOLEAN : Upload(ok)
    \/ \E action \in Toggles \cup {"done"}, result \in Results :
          EditorSelect(action, result)

\* The build with the manifest commands, the operations on a project and
\* the menus
SpecCli == InitCli /\ [][NextCli]_vars

(***************************************************************************)
(* Properties                                                              *)
(***************************************************************************)
Launches == {log[i].step : i \in 1..Len(log)}

RootInstall == Step("root", "install")
Compile == Step("backend", "compile")
BackendBuild == Step("backend", "build")
FrontendBuild == Step("frontend", "build")

\* buildArtifact is running, or has run, with a target resolved
Resolved == cmd = "build" /\ activeConfig # NoConfig

\* This run has made no staging directory and no artifact
NothingProduced == tmpDir = -1 /\ artifactName = -1 /\ artifacts = artifacts0

\* C1 as stated: for every resolved target of a manifest whose contracts
\* language is set and is not sCrypt, the build fails before any subprocess
\* is launched, the dependency installs included.
C1_AsStated ==
    Resolved /\ HasContracts(info) /\ info.contracts # "sCrypt"
        => log = <<>> /\ pc # "done"

\* C1, amended: for every resolved target with backend in its deploy set,
\* under a manifest whose contracts language is set and is not sCrypt, the
\* build fails (unsupported language, or backend missing when there is no
\* backend/package.json) after the root npm i and before any backend or
\* frontend subprocess, and makes no staging directory and no artifact.
C1_UnsupportedContracts ==
    Resolved /\ "backend" \in deploy /\ HasContracts(info)
             /\ info.contracts # "sCrypt"
        => /\ Launches \subseteq {RootInstall}
           /\ pc \in {"install", "backend", "failed"}
           /\ pc = "failed" =>
                 failure = IF <<"backend", "package.json">> \in fs
                           THEN "UnsupportedContractLanguage"
                           ELSE "BackendMissing"
           /\ NothingProduced

C1_Witness ==
    /\ Resolved /\ info.contracts = "Solidity"
    /\ pc = "failed" /\ failure = "UnsupportedContractLanguage"
    /\ log = <<[step |-> RootInstall, status |-> 0]>>

\* C2: when a command has ended, no staging directory is left on disk,
\* whichever way the run ended.
C2_NoStagingLeft == pc \in Ended => staging = {}

\* C3: a compile or build step that exits non-zero is the last subprocess
\* of its run: the run has failed with that step's error, has made no
\* staging directory and has written no artifact.
C3_FailFast ==
    \A i \in 1..Len(log) :
        log[i].step \in {Compile, BackendBuild, FrontendBuild}
            /\ log[i].status = 1
        => /\ i = Len(log)
           /\ running = {}
           /\ pc = "failed"
           /\ failure = CASE log[i].step = Compile -> "BackendCompileFailed"
                          [] log[i].step = BackendBuild -> "BackendBuildFailed"
                          [] OTHER -> "ReactBuildFailed"
           /\ NothingProduced

C3_Witness ==
    /\ pc = "failed" /\ failure = "ReactBuildFailed"
    /\ log[Len(log)] = [step |-> FrontendBuild, status |-> 1]
    /\ Compile \in Launches

\* C4: a build of a manifest whose schema is not 'bsv-app' (or is missing)
\* fails with the schema error with no target resolved, no subprocess
\* launched, no staging directory and no artifact.
C4_InvalidSchema ==
    cmd = "build" /\ info # NoFile /\ info.schema # "bsv-app"
        => /\ pc = "failed" /\ failure = "InvalidSchema"
           /\ activeConfig = NoConfig
           /\ log = <<>> /\ running = {}
           /\ NothingProduced

C4_Witness ==
    /\ cmd = "build" /\ info # NoFile /\ info.schema = Absent
    /\ failure = "InvalidSchema"
    /\ loadHist.writes = 1

\* The place of a build step in the order compile, backend build, frontend
\* build; 0 for the dependency installs
Rank(st) ==
    CASE st = Compile -> 1
      [] st = BackendBuild -> 2
      [] st = FrontendBuild -> 3
      [] OTHER -> 0

\* log[i] is a backend compile or build step that has ended with status 0
Succeeded(i) == log[i].status = 0

\* C5: at most one subprocess is alive at any time; the build steps of a
\* run are launched in the order compile, backend build, frontend build;
\* and when a frontend subprocess is launched, every backend step launched
\* before it has ended with status 0, the steps a backend in the deploy set
\* requires (compile and build under sCrypt) among them.
C5_Sequential ==
    /\ Cardinality(running) <= 1
    /\ \A i, j \in 1..Len(log) :
          i < j /\ Rank(log[i].step) > 0 /\ Rank(log[j].step) > 0
              => Rank(log[i].step) < Rank(log[j].step)
    /\ \A j \in 1..Len(log) :
          log[j].step.dir = "frontend"
              => /\ \A i \in 1..(j - 1) :
                       log[i].step \in {Compile, BackendBuild} => Succeeded(i)
                 /\ "backend" \in deploy /\ HasContracts(info)
                       => {Compile, BackendBuild} \subseteq
                              {log[i].step : i \in 1..(j - 1)}

C5_Witness ==
    /\ Len(log) = 6
    /\ log[3].step = Compile /\ log[4].step = BackendBuild
    /\ log[6] = [step |-> FrontendBuild, status |-> -1]
    /\ running = {FrontendBuild}

PackagedFiles ==
    {ManifestEntry, <<"package.json">>, <<"package-lock.json">>}

\* C6: a build for a resolved target whose deploy set is empty launches no
\* subprocess but the root npm i and never fails; the archive it writes
\* holds the manifest and those of package.json and package-lock.json that
\* exist, and nothing else: no backend entry and no frontend entry.
C6_EmptyDeploy ==
    Resolved /\ deploy = {}
        => /\ Launches \subseteq {RootInstall}
           /\ pc # "failed"
           /\ pc = "done" =>
                 /\ artifactName \in DOMAIN artifacts
                 /\ ManifestEntry \in artifacts[artifactName]
                 /\ artifacts[artifactName] =
                       {ManifestEntry} \cup (fs \cap PackagedFiles)
                 /\ \A e \in artifacts[artifactName] :
                       Head(e) \notin {"backend", "frontend"}

C6_Witness ==
    /\ Resolved /\ deploy = {} /\ pc = "done"
    /\ {<<"backend">>, <<"frontend">>} \subseteq fs
    /\ artifacts[artifactName] =
          {ManifestEntry, <<"package.json">>, <<"package-lock.json">>}

\* The backend stage of the run is over and has not failed
PastBackend ==
    \/ pc \in {"frontend", "frontendInstall", "frontendBuild", "stage",
               "package", "done"}
    \/ pc = "failed" /\ failure \notin
          {"BackendMissing", "UnsupportedContractLanguage",
           "MissingCompileStep", "BackendCompileFailed", "BackendBuildFailed"}

\* C7: for a resolved target with backend in its deploy set and a manifest
\* without a contracts language, compile is never launched; the backend
\* build step is launched only if declared and, once the backend stage is
\* over, if and only if declared; when it is not declared and
\* backend/package.json exists, the run does not fail in the backend stage.
C7_NoContracts ==
    Resolved /\ "backend" \in deploy /\ ~HasContracts(info)
        => /\ Compile \notin Launches
           /\ BackendBuild \in Launches => "build" \in scripts
           /\ PastBackend => (BackendBuild \in Launches <=> "build" \in scripts)
           /\ "build" \notin scripts /\ pc = "failed"
                 /\ <<"backend", "package.json">> \in fs
                 => PastBackend

C7_Witness ==
    /\ Resolved /\ "backend" \in deploy /\ ~HasContracts(info)
    /\ scripts = {"compile"}
    /\ pc = "done"
    /\ Launches = {RootInstall, Step("backend", "install")}

\* C8: for a resolved target with backend in its deploy set, under a
\* manifest with contracts language sCrypt and a backend/package.json that
\* declares no compile script, neither compile nor build is launched, the
\* run can only fail, with the missing-compile-step error, and it makes no
\* staging directory and no artifact.
C8_MissingCompile ==
    Resolved /\ "backend" \in deploy /\ info.contracts = "sCrypt"
             /\ <<"backend", "package.json">> \in fs
             /\ "compile" \notin scripts
        => /\ Compile \notin Launches /\ BackendBuild \notin Launches
           /\ pc \in {"install", "backend", "backendInstall", "failed"}
           /\ pc = "failed" => failure = "MissingCompileStep"
           /\ NothingProduced

C8_Witness ==
    /\ Resolved /\ info.contracts = "sCrypt" /\ "build" \in scripts
    /\ pc = "failed" /\ failure = "MissingCompileStep"
    /\ Len(log) = 2

\* The manifest the latest load read
pre == loadHist.pre

\* C9 as stated: a load of a manifest with a legacy list writes the file
\* exactly once; the load that follows it writes nothing and leaves the
\* file as it was; no load writes more than once.
C9_AsStated ==
    loadHist.valid
        => /\ loadHist.writes <= 1
           /\ Truthy(pre.deployments) /\ ~loadHist.again
                 => loadHist.writes = 1
           /\ loadHist.again => loadHist.writes = 0 /\ file = pre

\* C9, amended: a load of a manifest with a legacy list writes the file
\* exactly once when the manifest has no configs list, and not at all when
\* it has one; the load that follows it writes nothing and leaves the file
\* as it was; no load writes more than once.
C9_Idempotent ==
    loadHist.valid
        => /\ loadHist.writes <= 1
           /\ Truthy(pre.deployments) /\ ~loadHist.again
                 => loadHist.writes =
                       IF pre.configs.kind = "list" THEN 0 ELSE 1
           /\ loadHist.again => loadHist.writes = 0 /\ file = pre

\* The second of two loads, the first of which migrated the manifest
C9_Witness ==
    /\ loadHist.valid /\ loadHist.again
    /\ pre.deployments = NoField
    /\ pre.configs = List(<<tLars, tBackend>>)
    /\ file = pre

\* C10 as stated: after a load of a manifest with a legacy list, the file
\* has the targets under configs and has no legacy field.
C10_AsStated ==
    loadHist.valid /\ Truthy(pre.deployments)
        => file.deployments = NoField /\ Truthy(file.configs)

\* C10, amended: after a load of a manifest with a legacy list and no
\* configs list, the file has that list under configs, has no legacy field
\* and is otherwise as it was read; a manifest that has a configs list is
\* left on disk as it was, its legacy field included.
C10_Migrated ==
    loadHist.valid /\ Truthy(pre.deployments)
        => IF pre.configs.kind = "list"
           THEN file = pre
           ELSE /\ file.deployments = NoField
                /\ file.configs = pre.deployments
                /\ \A k \in {"schema", "contracts", "frontend"} :
                      file[k] = pre[k]

C10_Witness ==
    /\ loadHist.valid /\ loadHist.writes = 1
    /\ pre.deployments = List(<<tLars, tBackend>>)
    /\ file.deployments = NoField
    /\ file.configs = List(<<tLars, tBackend>>)

\* The greatest timestamp among the artifacts on disk
LatestTime == CHOOSE t \in DOMAIN artifacts : \A u \in DOMAIN artifacts : u <= t

\* C11: of two artifacts made at timestamps T1 < T2 the name of the first is
\* before the name of the second as strings, and findLatestArtifact returns
\* the name of the artifact with the greatest timestamp.
C11_ChronologicalNames ==
    /\ \A t1, t2 \in DOMAIN artifacts :
          t1 < t2 => Before(ArtifactFile(t1), ArtifactFile(t2))
    /\ DOMAIN artifacts # {} => findLatestArtifact = ArtifactFile(LatestTime)

\* id is a non-negative integer string: digits and nothing else
IsOrdinal(id) == id # <<>> /\ \A k \in 1..Len(id) : IsDigit(id[k])

\* The position of the first target named id, 0 when there is none
FirstNamed(id) ==
    LET all == listAllConfigs(info)
        named == {k \in 1..Len(all) : all[k].name = id}
    IN  IF named = {} THEN 0 ELSE CHOOSE k \in named : \A j \in named : k <= j

\* The position resolve(id) is specified to return: the ordinal when id is a
\* non-negative integer string below the number of targets, otherwise the
\* first target of that name, 0 when neither matches
Specified(id) ==
    IF IsOrdinal(id) /\ DigitsValue(id) < Len(listAllConfigs(info))
    THEN DigitsValue(id) + 1
    ELSE FirstNamed(id)

\* pickCARSConfig is about to resolve an identifier
Resolving == pc = "pick" /\ nameOrIndex # <<>>

\* pickCARSConfig went on with the target at position k: it returned it when
\* it is a CARS target and rejected it as not a CARS target otherwise
WentOnWith(k) ==
    IF isCARSConfig(listAllConfigs(info)[k])
    THEN pc' = "install" /\ activeConfig' = listAllConfigs(info)[k]
    ELSE pc' = "failed" /\ failure' = "NotCARSConfig"

\* C12: resolving an identifier takes the ordinal first (a non-negative
\* integer string below the number of targets is that position, even when a
\* target has that name), otherwise the first target of exactly that name,
\* and otherwise fails with target-not-found and a non-zero exit.
C12_OrdinalThenName ==
    [][Resolving =>
          IF Specified(nameOrIndex) = 0
          THEN pc' = "failed" /\ failure' = "ConfigNotFound"
          ELSE WentOnWith(Specified(nameOrIndex))]_vars

\* C13: an identifier that is not a non-negative integer string is resolved
\* by exact name only: the target pickCARSConfig goes on with (returned, or
\* rejected as not a CARS target) has that name.
C13_NameOnly ==
    [][Resolving /\ ~IsOrdinal(nameOrIndex) =>
          /\ pc' = "install" => activeConfig'.name = nameOrIndex
          /\ failure' = "NotCARSConfig" =>
                \E k \in 1..Len(listAllConfigs(info)) :
                    /\ listAllConfigs(info)[k].name = nameOrIndex
                    /\ ~isCARSConfig(listAllConfigs(info)[k])]_vars

\* C14: resolution never yields a target of a provider other than CARS.
\* Whatever pickCARSConfig goes on with is a CARS target of the list; an
\* ordinal, or a name, that designates a target of another provider ends the
\* command with the not-a-CARS-configuration error; the prompt offers CARS
\* targets only; ordinals count the
\* targets of every provider, and resolving changes neither the list in
\* memory nor the manifest file.
C14_EligibleOnly ==
    [][/\ activeConfig' # NoConfig => activeConfig'.provider = "CARS"
       /\ pc \in {"pick", "prompt"} =>
             /\ pc' = "install" =>
                   \E k \in 1..Len(listAllConfigs(info)) :
                       /\ activeConfig' = listAllConfigs(info)[k]
                       /\ listAllConfigs(info)[k].provider = "CARS"
             /\ Resolving /\ IsOrdinal(nameOrIndex)
                   /\ DigitsValue(nameOrIndex) < Len(listAllConfigs(info))
                   => WentOnWith(DigitsValue(nameOrIndex) + 1)
             /\ Resolving /\ parseInt(nameOrIndex).nan
                   /\ FirstNamed(nameOrIndex) # 0
                   => WentOnWith(FirstNamed(nameOrIndex))
             /\ info' = info /\ file' = file]_vars

\* An ordinal that designates a target of another provider was rejected, in
\* a list where a CARS target follows that target
C14_Witness ==
    /\ cmd = "build" /\ pc = "failed" /\ failure = "NotCARSConfig"
    /\ activeConfig = NoConfig
    /\ Len(listAllConfigs(info)) = 2
    /\ listAllConfigs(info)[1].provider = "LARS"
    /\ listAllConfigs(info)[2].provider = "CARS"

\* C15: without an identifier, a manifest with exactly one eligible target
\* has that target used at once, with no prompt; with two or more eligible
\* targets none is chosen by the program: the user is asked.
C15_ImplicitDefault ==
    [][pc = "pick" /\ nameOrIndex = <<>> =>
          /\ Cardinality(carsConfigs(info)) = 1 =>
                /\ pc' = "install"
                /\ \E k \in carsConfigs(info) :
                       activeConfig' = listAllConfigs(info)[k]
          /\ Cardinality(carsConfigs(info)) >= 2 =>
                pc' = "prompt" /\ activeConfig' = NoConfig]_vars

\* The artifact files that were not there when the command started
NewArtifacts == DOMAIN artifacts \ DOMAIN artifacts0

Archive == artifacts[artifactName]

\* The entries of the archive under the top-level entry d, d included
Under(d) == {e \in Archive : Head(e) = d}

\* The paths of the project under the directory p, p not included
Inside(p) == {q \in fs : IsPrefix(p, q) /\ q # p}

\* C17: the archive of a successful build holds, at its root, the manifest
\* and those of package.json and package-lock.json that exist; a backend
\* entry with everything in the backend directory exactly when backend is
\* in the deploy set; a frontend entry exactly when frontend is in the
\* deploy set, holding what is in frontend/build (and not the sources) for
\* react and everything in the frontend directory, index.html included,
\* for html; and nothing else.
C17_ArchiveStructure ==
    cmd = "build" /\ pc = "done" =>
        /\ Archive \ (Under("backend") \cup Under("frontend"))
              = {ManifestEntry} \cup (fs \cap {<<"package.json">>, LockFile})
        /\ Under("backend") =
              IF "backend" \in deploy
              THEN {<<"backend">>} \cup Inside(<<"backend">>)
              ELSE {}
        /\ "frontend" \notin deploy => Under("frontend") = {}
        /\ "frontend" \in deploy /\ frontendLang = "react" =>
              Under("frontend") =
                  {<<"frontend">>} \cup
                  {<<"frontend">> \o SubSeq(q, 3, Len(q)) :
                      q \in Inside(ReactOutput)}
        /\ "frontend" \in deploy /\ frontendLang # "react" =>
              /\ frontendLang = "html"
              /\ IndexHtml \in Under("frontend")
              /\ Under("frontend") =
                    {<<"frontend">>} \cup Inside(<<"frontend">>)

\* A react frontend and a backend packaged together: the built page is in
\* the archive, frontend/package.json is not
C17_Witness ==
    /\ cmd = "build" /\ pc = "done" /\ deploy = Parts
    /\ frontendLang = "react"
    /\ <<"frontend", "index.html">> \in Archive
    /\ FrontendPkg \notin Archive
    /\ <<"backend", "package.json">> \in Archive

\* A source the stager requires for this target is not in the project
RequiredMissing ==
    \/ "backend" \in deploy /\ <<"backend">> \notin fs
    \/ "frontend" \in deploy /\ frontendLang = "react" /\ ReactOutput \notin fs
    \/ "frontend" \in deploy /\ frontendLang = "html" /\ IndexHtml \notin fs

StagerErrors ==
    {"StageBackendMissing", "StageReactOutputMissing", "StageHtmlEntryMissing"}

\* C18: while a source the stager requires is missing (the backend
\* directory, the react build output, or index.html of an html frontend),
\* the run never gets to packaging and writes no artifact file; once the
\* stager has run it has ended the command non-zero with its own error,
\* even though the build steps' checks had passed.
C18_StagerAborts ==
    cmd = "build" /\ Resolved /\ RequiredMissing =>
        /\ pc \notin {"package", "done"}
        /\ artifacts = artifacts0
        /\ tmpDir # -1 => pc = "failed" /\ failure \in StagerErrors

\* The backend was built, then its directory was gone when the stager ran
C18_Witness ==
    /\ cmd = "build" /\ pc = "failed" /\ failure = "StageBackendMissing"
    /\ BackendBuild \in Launches
    /\ tmpDir # -1 /\ artifacts = artifacts0

\* The run is past its backend stage and its frontend checks
FrontendDecided == Resolved /\ PastBackend /\ pc # "frontend"

FrontendLaunches == {st \in Launches : st.dir = "frontend"}

\* C19 as stated: with frontend in the deploy set and a declared frontend
\* language other than the strings react and html, a build that gets to the
\* frontend stage fails with the unsupported-frontend-language error,
\* launches no frontend subprocess and produces nothing.
C19_AsStated ==
    FrontendDecided /\ "frontend" \in deploy
        /\ info.frontend \notin {Absent, "react", "html"}
        => /\ pc = "failed" /\ failure = "UnsupportedFrontendLanguage"
           /\ FrontendLaunches = {}
           /\ NothingProduced

\* C19, amended: with frontend in the deploy set and a declared frontend
\* language that, in lower case, is neither react nor html, a build that
\* gets to the frontend stage fails there: with the
\* unsupported-frontend-language error when frontend/package.json exists,
\* and with the error of a missing frontend/package.json when it does not;
\* it launches no frontend subprocess and produces nothing.
C19_UnsupportedFrontend ==
    FrontendDecided /\ "frontend" \in deploy /\ info.frontend # Absent
        /\ frontendLang \notin {"react", "html"}
        => /\ pc = "failed"
           /\ failure = IF FrontendPkg \in fs
                         THEN "UnsupportedFrontendLanguage"
                         ELSE "FrontendPackageMissing"
           /\ FrontendLaunches = {}
           /\ NothingProduced

\* The backend was built, then the frontend language was refused
C19_Witness ==
    /\ Resolved /\ deploy = Parts /\ info.frontend = "vue"
    /\ pc = "failed" /\ failure = "UnsupportedFrontendLanguage"
    /\ BackendBuild \in Launches

\* C20: for a resolved target with frontend in its deploy set and an html
\* frontend (in any letter case), no frontend subprocess is ever launched,
\* neither install nor build, whether or not frontend/package.json exists;
\* and once the frontend stage is over, the run has gone on to staging if
\* frontend/index.html exists and has failed with the missing-entry-point
\* error if it does not.
C20_HtmlFrontend ==
    Resolved /\ "frontend" \in deploy /\ info.frontend # Absent
        /\ frontendLang = "html"
        => /\ FrontendLaunches = {}
           /\ FrontendDecided =>
                 IF IndexHtml \in fs
                 THEN pc \in {"stage", "package", "done"}
                 ELSE pc = "failed" /\ failure = "HtmlEntryMissing"
                      /\ NothingProduced

\* An html frontend with a frontend/package.json, packaged without any
\* frontend subprocess
C20_Witness ==
    /\ Resolved /\ deploy = {"frontend"} /\ info.frontend = "HTML"
    /\ FrontendPkg \in fs /\ IndexHtml \in fs
    /\ pc = "done"
    /\ Launches = {RootInstall}
    /\ IndexHtml \in Archive

(***************************************************************************)
(* C21. A command that loads the manifest where there is none exits        *)
(* non-zero, and leaves no manifest, no staging directory and no artifact  *)
(* behind.                                                                 *)
(***************************************************************************)
ManifestWasMissing == cmd # "none" /\ info = NoFile

C21_ManifestMissing ==
    ManifestWasMissing =>
        /\ pc = "failed"
        /\ failure = "ManifestMissing"
        /\ ~file.exists
        /\ staging = {}
        /\ NothingProduced
        /\ log = <<>>

\* cars build has run in a project that has no manifest
C21_Witness == ManifestWasMissing /\ cmd = "build" /\ pc = "failed"

(***************************************************************************)
(* C28. The exit status of an install step (root, backend, frontend) is    *)
(* never read: when npm i returns, whatever its status, the build goes on  *)
(* as it does after an install that succeeded.                             *)
(***************************************************************************)
IsInstall(st) == st.script = "install"

\* The step that returns in this step of the build
Returns(st) == st \in running /\ st \notin running'

\* Where the build goes after an install that succeeded
AfterInstall(st) ==
    CASE st.dir = "root" -> "backend"
      [] st.dir = "backend" -> AfterBackendInstall
      [] st.dir = "frontend" -> "frontendBuild"

C28_InstallStatusIgnored ==
    [][\A at \in DOMAIN SpawnAt :
          IsInstall(SpawnAt[at]) /\ Returns(SpawnAt[at]) =>
              /\ pc' = AfterInstall(SpawnAt[at])
              /\ failure' \in {failure, "MissingCompileStep"}
              /\ failure' = "MissingCompileStep" =>
                     HasContracts(info) /\ "compile" \notin scripts]_vars

\* Every install of a build failed, and the build wrote its artifact
C28_Witness ==
    /\ pc = "done"
    /\ artifactName \in DOMAIN artifacts
    /\ \A at \in {"install", "backendInstall", "frontendInstall"} :
          \E k \in 1..Len(log) :
             log[k] = [step |-> SpawnAt[at], status |-> 1]

(***************************************************************************)
(* C25. A build never changes the target list of the manifest: after every *)
(* step of cars build, with or without an identifier and whatever the      *)
(* number of eligible targets, the file holds the targets it held before,  *)
(* in the same order (the legacy field may be renamed), and the target the *)
(* build resolved keeps its fields until the build ends.                   *)
(***************************************************************************)
\* The ordered target list a manifest file stores, under either field name
TargetsOf(f) ==
    IF ~f.exists THEN <<>>
    ELSE IF Truthy(f.configs) THEN f.configs.items
    ELSE IF Truthy(f.deployments) THEN f.deployments.items
    ELSE <<>>

C25_TargetListKept ==
    [][cmd' = "build" =>
          /\ TargetsOf(file') = TargetsOf(file)
          /\ activeConfig # NoConfig /\ cmds' = cmds =>
                 activeConfig' = activeConfig]_vars

(***************************************************************************)
(* C29. cars config delete removes exactly the target its identifier       *)
(* resolves to and saves the manifest: the other targets stay, in their    *)
(* order; an identifier that resolves to no target, or to a target of      *)
(* another provider, is rejected and the manifest keeps its targets.       *)
(***************************************************************************)
C29_DeleteExactlyOne ==
    [][pc = "delete" =>
          LET all == listAllConfigs(info)
              k == Specified(nameOrIndex)
          IN  IF k = 0 \/ ~isCARSConfig(all[k])
              THEN /\ pc' = "failed"
                   /\ file' = file
                   /\ TargetsOf(file') = TargetsOf(loadHist.pre)
              ELSE /\ pc' = "done"
                   /\ TargetsOf(file') = Without(all, k)
                   /\ Without(all, k) = Without(TargetsOf(loadHist.pre), k)]_vars

(***************************************************************************)
(* C22. cars, given no argument where there is no manifest, writes a basic *)
(* manifest of schema 'bsv-app'; and whenever it enters the main menu the  *)
(* manifest on disk holds at least one CARS configuration.                 *)
(***************************************************************************)
HasCARSTarget(f) ==
    \E k \in 1..Len(TargetsOf(f)) : isCARSConfig(TargetsOf(f)[k])

C22_MenuAfterFirstConfig ==
    [][/\ ~file.exists /\ cmd' = "main" /\ cmds' # cmds =>
             /\ file'.exists
             /\ file'.schema = "bsv-app"
             /\ TargetsOf(file') = <<>>
             /\ pc' # "mainMenu"
       /\ cmd' = "main" /\ pc' = "mainMenu" =>
             file'.exists /\ HasCARSTarget(file')]_vars

\* The main menu is entered in a project that had no manifest: the manifest
\* is the basic one with the configuration just made
C22_Witness ==
    /\ cmd = "main"
    /\ pc = "mainMenu"
    /\ op = "main"
    /\ file.exists
    /\ file.contracts = Absent
    /\ Len(TargetsOf(file)) = 1
    /\ TargetsOf(file)[1].name = NewName

(***************************************************************************)
(* C23. cars release now uploads the local artifact of the greatest        *)
(* timestamp; it looks for the artifact before any request, so that where  *)
(* there is no artifact it fails and no release is made; and the upload    *)
(* follows a release request whose response had the upload URL and the     *)
(* release id.                                                             *)
(***************************************************************************)
\* The artifact file of the greatest timestamp
NewestArtifact ==
    ArtifactFile(CHOOSE t \in DOMAIN artifacts :
                    \A u \in DOMAIN artifacts : u <= t)

C23_UploadsNewest ==
    cmd = "release" =>
        /\ sent # <<>> => artifactPath # <<>> /\ DOMAIN artifacts # {}
        /\ artifactPath # <<>> => artifactPath = NewestArtifact
        /\ DOMAIN artifacts = {} /\ pc \in Ended /\ activeConfig.projectID # Absent
              => pc = "failed" /\ failure = "NoArtifact"
        /\ \A k \in 1..Len(sent) :
              sent[k].endpoint = "upload" =>
                  /\ k > 1
                  /\ sent[k - 1].endpoint = "deploy"
                  /\ sent[k - 1].result = "ok"
                  /\ sent[k].body = {NewestArtifact}

(***************************************************************************)
(* C24. The request that deletes a project is sent only when --force was   *)
(* given or both confirmations were answered yes; an answer of no ends the *)
(* deletion, and no delete request is sent.                                *)
(***************************************************************************)
DeleteSent == \E k \in 1..Len(sent) : sent[k].endpoint = "delete"
Declined == \E k \in 1..Len(answers) : ~answers[k]

C24_DeleteConfirmed ==
    /\ DeleteSent => "force" \in options \/ answers = <<TRUE, TRUE>>
    /\ Declined =>
          /\ ~DeleteSent
          /\ pc \in {"done", "projectMenu", "mainMenu"}

\* The delete request was sent without --force, both answers being yes
C24_Witness ==
    /\ DeleteSent
    /\ options = {}
    /\ answers = <<TRUE, TRUE>>
    /\ cmd = "project-delete"

(***************************************************************************)
(* C26. No authenticated request on a project is sent to a CARS Cloud      *)
(* before a registration request to that same CARS Cloud has completed in  *)
(* the same command; a registration that fails is the last request of the  *)
(* command, which exits non-zero.                                          *)
(***************************************************************************)
\* The requests that carry no identity: the registration itself and the
\* upload of the file to the URL of the release
IsAuthenticated(r) == r.endpoint \notin {"register", "upload"}

C26_RegisteredFirst ==
    \A k \in 1..Len(sent) :
        /\ IsAuthenticated(sent[k]) =>
              \E j \in 1..(k - 1) :
                  /\ sent[j].endpoint = "register"
                  /\ sent[j].to = sent[k].to
                  /\ sent[j].result = "ok"
        /\ sent[k].endpoint = "register" /\ sent[k].result = "undefined" =>
              /\ k = Len(sent)
              /\ pc = "failed"
              /\ failure = "RegistrationFailed"

\* An admin was added on the CARS Cloud of the second target of a manifest
\* whose first target is on another CARS Cloud, the command having
\* registered with the CARS Cloud of the second
C26_Witness ==
    /\ cmd = "add-admin"
    /\ Len(sent) = 2
    /\ sent[1] = Req(NewURL, "register", {}, "ok")
    /\ sent[2].endpoint = "addAdmin"
    /\ sent[2].to = NewURL
    /\ Len(TargetsOf(file)) = 2
    /\ TargetsOf(file)[1].CARSCloudURL = CloudURL

(***************************************************************************)
(* C27. When safeRequest returns undefined, the command or the menu        *)
(* selection that made the request returns or goes on with its loop: none, *)
(* add-admin and remove-admin included, ends in an exception that nothing  *)
(* catches.                                                                *)
(***************************************************************************)
\* The requests made with safeRequest
IsSafeRequest(r) ==
    r.endpoint \notin {"register", "upload", "project/create"}

C27_FailedRequestHandled ==
    \A k \in 1..Len(sent) :
        IsSafeRequest(sent[k]) /\ sent[k].result = "undefined" =>
            pc # "failed" /\ failure # "TypeError"

(***************************************************************************)
(* C30. In the editor of the engine settings, a selection that changes a   *)
(* setting sends one settings update, which carries the settings as        *)
(* edited, and Done leaves the editor and sends no update.                 *)
(***************************************************************************)
C30_DoneSendsNothing ==
    [][pc = "editor" =>
          IF engineConfig' # engineConfig
          THEN /\ Len(sent') = Len(sent) + 1
               /\ SubSeq(sent', 1, Len(sent)) = sent
               /\ sent'[Len(sent')].endpoint = "settings/update"
               /\ sent'[Len(sent')].body = engineConfig'
               /\ pc' = "editor"
          ELSE pc' # "editor" /\ sent' = sent]_vars

====
